---- MODULE Spec2Model ----
(***************************************************************************)
(* Model of the two notebooks of quantization-recipes:                     *)
(*   01_large_language_model_optimization.ipynb    (GPT-2, PTQ, ONNX)      *)
(*   02_vision_transformer_edge_optimization.ipynb (ViT, QAF, pruning)     *)
(*                                                                         *)
(* Spec       the two notebooks run top to bottom, statement by statement  *)
(* SpecCache  forward calls on one CachedQuantizedAttention instance       *)
(* SpecPrune  prune_attention_heads on one model                           *)
(* SpecFuse   fuse_bn_recursively on one module tree                       *)
(* SpecTrain  fine_tune, and the epoch loop over train_epoch and validate   *)
(***************************************************************************)
EXTENDS Integers, Sequences, FiniteSets, TLC

VARIABLES
    \* ---- notebook run ----
    nb,               \* which notebook runs: 1 or 2
    device,           \* torch.device: "cuda" if available, else "cpu"
    numBatches,       \* len(train_dataloader) / len(train_loader)
    numAttention,     \* number of timm Attention modules in the loaded model
    running,          \* top-level statements whose call has started and not ended
    started,          \* statements in the order their calls started
    returned,         \* statements in the order their calls returned
    err,              \* "None", or the statement whose call raised
    phase,            \* position inside the statement in progress
    epoch,            \* loop variable `epoch`
    batch,            \* number of batches consumed in the current loop
    run,              \* loop variable of benchmark
    target,           \* which of the three benchmark calls is in progress
    heap,             \* layer objects (submodules with parameters), by identity
    model,            \* the object bound to `model`
    model_prepared,   \* `model_prepared` (notebook 01) / `model_qat` (notebook 02)
    model_quantized,  \* `model_int8` (notebook 01) / `model_quantized` (notebook 02)
    optimized_model,  \* notebook 02: TRUE once `optimized_model` is bound
    attn_class,       \* notebook 01: class of layer.attn in model_int8
    observer_enabled, \* notebook 02: observers of model_qat enabled
    fake_quant_enabled, \* notebook 02: fake-quantization of model_qat enabled
    files,            \* files present in the working directory
    opens,            \* number of ort.InferenceSession(onnx_path) calls made
    \* ---- CachedQuantizedAttention ----
    cached_key,       \* self.cached_key: None, or a sequence of key vectors
    cached_value,     \* self.cached_value: None, or a sequence of value vectors
    hidden_states,    \* argument of the latest forward call
    out_key,          \* key returned by the latest forward call
    out_value,        \* value returned by the latest forward call
    calls,            \* number of forward calls made
    first_len,        \* length of the first call's hidden_states
    nonempty_later,   \* number of calls after the first with non-empty input
    autoregressive,   \* every call so far extended the previous input by one
    \* ---- prune_attention_heads ----
    modules,          \* model.modules(): the modules of the model, in order
    modules0,         \* the modules as they were before the call
    prune_ratio,      \* argument prune_ratio, as a fraction <<num, den>>
    prune_state,      \* "ready", "returned" or "raised"
    \* ---- fuse_bn_recursively ----
    tree,             \* the module tree of `model`
    tree0,            \* the module tree before the call
    fuse_state,       \* "ready" or "returned"
    \* ---- fine_tune / train_epoch / validate ----
    tr_variant,       \* 1: fine_tune (notebook 01); 2: the epoch loop of notebook 02
    tr_epochs,        \* argument / global `epochs`
    tr_batches,       \* len(train_dataloader) / len(loader)
    tr_epoch,         \* loop variable `epoch`
    tr_batch,         \* number of batches of the current epoch already processed
    tr_pc,            \* the next step of the loop
    tr_calls,         \* the framework calls made so far for the current batch
    tr_visits,        \* how often each batch was visited in the current epoch
    tr_loss,          \* loss.item() of the current batch
    total_loss,       \* the accumulator `total_loss`
    tr_steps,         \* number of scaler.step(optimizer) calls made
    tr_backwards,     \* number of backward passes made
    tr_training       \* model.training

nbVars == <<nb, device, numBatches, numAttention, running, started, returned,
            err, phase, epoch, batch, run, target, heap, model, model_prepared,
            model_quantized, optimized_model, attn_class, observer_enabled,
            fake_quant_enabled, files, opens>>
cacheVars == <<cached_key, cached_value, hidden_states, out_key, out_value,
               calls, first_len, nonempty_later, autoregressive>>
pruneVars == <<modules, modules0, prune_ratio, prune_state>>
fuseVars == <<tree, tree0, fuse_state>>
trainVars == <<tr_variant, tr_epochs, tr_batches, tr_epoch, tr_batch, tr_pc,
               tr_calls, tr_visits, tr_loss, total_loss, tr_steps, tr_backwards,
               tr_training>>
vars == <<nbVars, cacheVars, pruneVars, fuseVars, trainVars>>

-----------------------------------------------------------------------------
(* Bounds of the model *)
MaxBatches == 2
MaxAttention == 1

(* Constants of the notebooks *)
FineTuneEpochs01 == 3
FineTuneEpochs02 == 5
QafEpochs == 3
BenchmarkRuns01 == 100
WarmupRuns02 == 10
BenchmarkRuns02 == 100

OnnxPath == "quantized_gpt2.onnx"
MobilePath == "optimized_vit_edge.pt"

-----------------------------------------------------------------------------
(* Notebook01, were onnx_inference called before export_to_onnx *)
Notebook01InferenceFirst ==
    <<"load", "fine_tune", "apply_ptq", "quantized_attention",
      "cached_attention", "onnx_inference", "export_to_onnx", "benchmark">>

(* The top-level statements of each notebook, top to bottom *)
Notebook01 == <<"load", "fine_tune", "apply_ptq", "quantized_attention",
                "cached_attention", "export_to_onnx", "onnx_inference",
                "benchmark">>
Notebook02 == <<"load", "prepare_dataset", "fine_tune", "apply_qaf",
                "prune_attention_heads", "fuse_bn_recursively",
                "verify_quantized_attention", "optimize_for_mobile",
                "benchmark">>
Statements == IF nb = 1 THEN Notebook01 ELSE Notebook02

LayerNames01 == <<"wte", "wpe", "h", "lm_head">>
LayerNames02 == <<"patch_embed", "blocks", "head">>
LayerNames == IF nb = 1 THEN LayerNames01 ELSE LayerNames02

Range(s) == {s[i] : i \in DOMAIN s}
Index(s, x) == CHOOSE i \in DOMAIN s : s[i] = x

NoModel == [device |-> "none", training |-> FALSE, qconfig |-> FALSE,
            layers |-> [n \in {} |-> 0]]

-----------------------------------------------------------------------------
(* Tensor shapes and broadcasting, as the in-place operators of the         *)
(* framework apply them: the shapes are aligned on their last dimension,    *)
(* a missing or 1-sized dimension is stretched, and the result of an        *)
(* in-place operation must have the shape of its left operand.              *)
Max(a, b) == IF a >= b THEN a ELSE b

PadShape(s, n) == [i \in 1..n |-> IF i <= n - Len(s) THEN 1 ELSE s[i - (n - Len(s))]]

Broadcastable(a, b) ==
    LET n == Max(Len(a), Len(b))
        pa == PadShape(a, n)
        pb == PadShape(b, n)
    IN \A i \in 1..n : pa[i] = pb[i] \/ pa[i] = 1 \/ pb[i] = 1

BroadcastShape(a, b) ==
    LET n == Max(Len(a), Len(b))
        pa == PadShape(a, n)
        pb == PadShape(b, n)
    IN [i \in 1..n |-> Max(pa[i], pb[i])]

(* t *= o is accepted iff o broadcasts to exactly the shape of t *)
InplaceMulOK(t, o) == Broadcastable(t, o) /\ BroadcastShape(t, o) = t

(* mask = torch.ones(num_heads); mask.repeat(3).unsqueeze(1).unsqueeze(1) *)
MaskShape(num_heads) == <<3 * num_heads, 1, 1>>

(* module.qkv.weight of an Attention of width dim: (3 * dim, dim) *)
QkvWeightShape(dim) == <<3 * dim, dim>>

(* mask.squeeze(): (3 * num_heads,) *)
SqueezedMaskShape(num_heads) == <<3 * num_heads>>

-----------------------------------------------------------------------------
(* prune_attention_heads (notebook 02).                                     *)
(* A module is a record: kind, num_heads, weight (qkv.weight, a matrix of   *)
(* 3 * dim rows and dim columns, as a sequence of rows), has_bias and bias  *)
(* (qkv.bias, 3 * dim entries; <<>> when qkv.bias is None).                 *)
MaxHeads == 2
MaxHeadDim == 2

RECURSIVE SumSeq(_)
SumSeq(s) == IF s = <<>> THEN 0 ELSE s[1] + SumSeq(Tail(s))

SumSq(row) == SumSeq([i \in DOMAIN row |-> row[i] * row[i]])

(* integer square root; the weights drawn below make every norm exact *)
ISqrt(n) == CHOOSE r \in 0..n : r * r <= n /\ (r + 1) * (r + 1) > n

Shape2(w) == <<Len(w), Len(w[1])>>

HeadDimOf(m) == Len(m.weight[1]) \div m.num_heads

(* torch.norm(module.qkv.weight.view(3, num_heads, -1), dim=2)[s, h]: the    *)
(* weight is contiguous and row-major, so slice (s, h) of the view is the   *)
(* block of head_dim rows that starts after (s * num_heads + h - 1) blocks  *)
SliceNorm(m, s, h) ==
    ISqrt(SumSeq([k \in 1..HeadDimOf(m) |->
                    SumSq(m.weight[s * m.num_heads * HeadDimOf(m)
                                   + (h - 1) * HeadDimOf(m) + k])]))

(* head_importance.mean(dim=0), times 3 to stay in the integers *)
head_importance(m) ==
    [h \in 1..m.num_heads |-> SliceNorm(m, 0, h) + SliceNorm(m, 1, h) + SliceNorm(m, 2, h)]

(* num_prune = int(num_heads * prune_ratio), prune_ratio = ratio[1] / ratio[2] *)
num_prune(m, ratio) == (m.num_heads * ratio[1]) \div ratio[2]

(* torch.topk(head_importance, k, largest=False): any k indices none of      *)
(* which is larger than an index left out (the order among ties is not      *)
(* specified by the framework)                                              *)
topk_smallest(imp, k) ==
    {S \in SUBSET (DOMAIN imp) :
        /\ Cardinality(S) = k
        /\ \A i \in S : \A j \in (DOMAIN imp) \ S : imp[i] <= imp[j]}

(* mask = ones(num_heads); mask[indices] = 0; mask.repeat(3) *)
head_mask(num_heads, indices) ==
    [i \in 1..(3 * num_heads) |->
        IF (((i - 1) % num_heads) + 1) \in indices THEN 0 ELSE 1]

(* One iteration of the loop over model.modules(), with `indices` the       *)
(* result of topk. Returns the module after the iteration and whether the   *)
(* iteration raised. An in-place multiplication that raises writes nothing. *)
prune_module(m, indices) ==
    IF m.kind # "Attention" THEN [module |-> m, raised |-> FALSE]
    ELSE
    LET mask == head_mask(m.num_heads, indices)
        wOK == InplaceMulOK(Shape2(m.weight), MaskShape(m.num_heads))
        \* a (n, 1, 1) mask fits a 2-d weight only when it has one element
        w2 == [r \in DOMAIN m.weight |->
                 [c \in DOMAIN m.weight[r] |-> m.weight[r][c] * mask[1]]]
        bOK == InplaceMulOK(<<Len(m.bias)>>, SqueezedMaskShape(m.num_heads))
        b2 == [i \in DOMAIN m.bias |->
                 m.bias[i] * mask[IF Len(mask) = 1 THEN 1 ELSE i]]
    IN IF ~wOK THEN [module |-> m, raised |-> TRUE]
       ELSE IF ~m.has_bias THEN [module |-> [m EXCEPT !.weight = w2], raised |-> FALSE]
       ELSE IF ~bOK THEN [module |-> [m EXCEPT !.weight = w2], raised |-> TRUE]
       ELSE [module |-> [m EXCEPT !.weight = w2, !.bias = b2], raised |-> FALSE]

(* the choices topk may make, one index set per module *)
Selections(mods, ratio) ==
    {sel \in [DOMAIN mods -> SUBSET (1..MaxHeads)] :
        \A i \in DOMAIN mods :
            IF mods[i].kind = "Attention"
            THEN sel[i] \in topk_smallest(head_importance(mods[i]),
                                          num_prune(mods[i], ratio))
            ELSE sel[i] = {}}

(* the loop `for module in model.modules()` from module i on; it ends at    *)
(* the first iteration that raises                                          *)
RECURSIVE prune_from(_, _, _)
prune_from(mods, sel, i) ==
    IF i > Len(mods) THEN [modules |-> mods, raised |-> FALSE]
    ELSE LET r == prune_module(mods[i], sel[i])
             mods2 == [mods EXCEPT ![i] = r.module]
         IN IF r.raised THEN [modules |-> mods2, raised |-> TRUE]
            ELSE prune_from(mods2, sel, i + 1)

prune_attention_heads ==
    /\ prune_state = "ready"
    /\ \E sel \in Selections(modules, prune_ratio) :
         LET r == prune_from(modules, sel, 1)
         IN /\ modules' = r.modules
            /\ prune_state' = IF r.raised THEN "raised" ELSE "returned"
    /\ UNCHANGED <<modules0, prune_ratio>>
    /\ UNCHANGED <<nbVars, cacheVars, fuseVars, trainVars>>

(* the inputs: weights whose slices have exact norms 0, 3 or 5 *)
BlockPatterns == {<<0, 0>>, <<3, 0>>, <<3, 4>>}

(* qkv.weight of width dim whose block b holds pattern pat[b] in the first  *)
(* and last entry of its first row, and zeros elsewhere                     *)
WeightOf(num_heads, hd, pat) ==
    LET dim == num_heads * hd
    IN [r \in 1..(3 * dim) |->
         [c \in 1..dim |->
            IF (r - 1) % hd # 0 THEN 0
            ELSE IF c = 1 THEN pat[((r - 1) \div hd) + 1][1]
            ELSE IF c = dim THEN pat[((r - 1) \div hd) + 1][2]
            ELSE 0]]

AttentionModules ==
    {[kind |-> "Attention", num_heads |-> MaxHeads,
      weight |-> WeightOf(MaxHeads, hd, pat), has_bias |-> hb,
      bias |-> IF hb THEN [i \in 1..(3 * MaxHeads * hd) |-> 1] ELSE <<>>] :
        hd \in 1..MaxHeadDim, pat \in [1..(3 * MaxHeads) -> BlockPatterns],
        hb \in BOOLEAN}

LinearModule == [kind |-> "Linear", num_heads |-> 0, weight |-> <<<<2, 1>>>>,
                 has_bias |-> TRUE, bias |-> <<1>>]

PruneRatios == {<<3, 10>>, <<1, 2>>, <<1, 1>>}

InitPrune ==
    /\ modules \in {<<LinearModule>>} \cup {<<a>> : a \in AttentionModules}
                     \cup {<<LinearModule, a>> : a \in AttentionModules}
    /\ modules0 = modules
    /\ prune_ratio \in PruneRatios
    /\ prune_state = "ready"

PruneOff ==
    /\ modules = <<>>
    /\ modules0 = <<>>
    /\ prune_ratio = <<0, 1>>
    /\ prune_state = "off"

-----------------------------------------------------------------------------
(* CachedQuantizedAttention (notebook 01).                                  *)
(* hidden_states has batch size 1 and is a sequence of positions; a hidden  *)
(* vector is one of MaxHidden values. self.query, self.key and self.value   *)
(* are Linear layers: they map each position on its own.                    *)
MaxLen == 3
MaxHidden == 2
MaxCalls == 3

RECURSIVE SeqsUpTo(_, _)
SeqsUpTo(S, n) ==
    IF n = 0 THEN {<<>>}
    ELSE LET shorter == SeqsUpTo(S, n - 1)
         IN shorter \cup {Append(q, x) : q \in {t \in shorter : Len(t) = n - 1}, x \in S}

HiddenStates == SeqsUpTo(0..(MaxHidden - 1), MaxLen)

key_proj(x) == 10 + x
value_proj(x) == 20 + x
key(h) == [i \in DOMAIN h |-> key_proj(h[i])]
value(h) == [i \in DOMAIN h |-> value_proj(h[i])]

None == [is_none |-> TRUE, t |-> <<>>]
Tensor(t) == [is_none |-> FALSE, t |-> t]

(* last_hidden_state, were the slice [:, :1, :] (the first position) *)
first_hidden_state(h) == IF Len(h) = 0 THEN <<>> ELSE <<h[1]>>

(* hidden_states[:, -1:, :] : the last position, or nothing of an empty input *)
last_hidden_state(h) == IF Len(h) = 0 THEN <<>> ELSE <<h[Len(h)]>>

(* cat, were the new key/value stored in place of the concatenation *)
cat_overwrite(a, b) == b

(* torch.cat([a, b], dim=1) *)
cat(a, b) == a \o b

(* CachedQuantizedAttention.forward: the cache after the call *)
forward_key(ck, h) ==
    IF ck.is_none THEN Tensor(key(h))
    ELSE Tensor(cat(ck.t, key(last_hidden_state(h))))

forward_value(cv, h) ==
    IF cv.is_none THEN Tensor(value(h))
    ELSE Tensor(cat(cv.t, value(last_hidden_state(h))))

forward ==
    /\ calls < MaxCalls
    /\ \E h \in HiddenStates :
         /\ hidden_states' = h
         /\ cached_key' = forward_key(cached_key, h)
         /\ cached_value' = forward_value(cached_value, h)
         /\ first_len' = IF calls = 0 THEN Len(h) ELSE first_len
         /\ nonempty_later' = IF calls > 0 /\ Len(h) > 0
                              THEN nonempty_later + 1 ELSE nonempty_later
         /\ autoregressive' =
              IF calls = 0 THEN TRUE
              ELSE /\ autoregressive
                   /\ Len(h) = Len(hidden_states) + 1
                   /\ SubSeq(h, 1, Len(hidden_states)) = hidden_states
    /\ out_key' = cached_key'.t
    /\ out_value' = cached_value'.t
    /\ calls' = calls + 1
    /\ UNCHANGED <<nbVars, pruneVars, fuseVars, trainVars>>

(* CachedQuantizedAttention.__init__ *)
InitCache ==
    /\ cached_key = None
    /\ cached_value = None
    /\ hidden_states = <<>>
    /\ out_key = <<>>
    /\ out_value = <<>>
    /\ calls = 0
    /\ first_len = 0
    /\ nonempty_later = 0
    /\ autoregressive = TRUE

CacheOff == InitCache

-----------------------------------------------------------------------------
(* fuse_bn_recursively (notebook 02).                                       *)
(* A module is [kind, children]; children is the sequence of its named      *)
(* children, the name of a child being its position, as in nn.Sequential.   *)
MaxNodes == 5

LeafKinds == {"BatchNorm2d", "Conv2d"}
Leaf(k) == [kind |-> k, children |-> <<>>]
Identity == Leaf("Identity")

RECURSIVE TreesOfSize(_), ForestsOfSize(_)
TreesOfSize(n) ==
    (IF n = 1 THEN {Leaf(k) : k \in LeafKinds} ELSE {})
    \cup {[kind |-> "Sequential", children |-> f] : f \in ForestsOfSize(n - 1)}
ForestsOfSize(n) ==
    IF n = 0 THEN {<<>>}
    ELSE UNION {{<<t>> \o f : t \in TreesOfSize(k), f \in ForestsOfSize(n - k)} :
                  k \in 1..n}

(* fuse_child, were the recursive call left out *)
fuse_child_shallow(c) == IF c.kind = "BatchNorm2d" THEN Identity ELSE c

RECURSIVE fuse_bn_recursively(_)
fuse_child(c) ==
    LET c1 == IF c.children # <<>> THEN fuse_bn_recursively(c) ELSE c
    IN IF c.kind = "BatchNorm2d" THEN Identity ELSE c1

(* the module tree after fuse_bn_recursively(m) *)
fuse_bn_recursively(m) ==
    [m EXCEPT !.children = [i \in DOMAIN m.children |-> fuse_child(m.children[i])]]

fuse ==
    /\ fuse_state = "ready"
    /\ tree' = fuse_bn_recursively(tree)
    /\ fuse_state' = "returned"
    /\ UNCHANGED tree0
    /\ UNCHANGED <<nbVars, cacheVars, pruneVars, trainVars>>

InitFuse ==
    /\ tree \in UNION {{t \in TreesOfSize(n) : t.kind = "Sequential"} : n \in 1..MaxNodes}
    /\ tree0 = tree
    /\ fuse_state = "ready"

FuseOff ==
    /\ tree = Leaf("Sequential")
    /\ tree0 = tree
    /\ fuse_state = "off"

-----------------------------------------------------------------------------
(* fine_tune (notebook 01) and the epoch loop of notebook 02 over           *)
(* train_epoch and validate, one step per framework call.                   *)
MaxEpochs == 3
MaxLoss == 2

trainRest == <<nbVars, cacheVars, pruneVars, fuseVars>>
trainArgs == <<tr_variant, tr_epochs, tr_batches>>

(* next_call, were scaler.step(optimizer) written before the backward pass *)
next_call_step_first(c) ==
    CASE c = "zero_grad" -> "forward"
      [] c = "forward" -> "step"
      [] c = "step" -> "backward"
      [] c = "backward" -> "update"
      [] c = "update" -> "accumulate"

(* the statements of the loop body, each followed by the next:              *)
(* optimizer.zero_grad(); with autocast(): forward and loss;                *)
(* scaler.scale(loss).backward(); scaler.step(optimizer); scaler.update();  *)
(* total_loss += loss.item()                                                *)
next_call(c) ==
    CASE c = "zero_grad" -> "forward"
      [] c = "forward" -> "backward"
      [] c = "backward" -> "step"
      [] c = "step" -> "update"
      [] c = "update" -> "accumulate"

(* fine_tune: scaler = GradScaler(); model.train(), once before the loops.  *)
(* notebook 02: criterion, optimizer, scaler; epochs = 5                    *)
train_setup ==
    /\ tr_pc = "setup"
    /\ tr_training' = IF tr_variant = 1 THEN TRUE ELSE tr_training
    /\ tr_pc' = "epoch"
    /\ UNCHANGED <<trainArgs, tr_epoch, tr_batch, tr_calls, tr_visits, tr_loss,
                   total_loss, tr_steps, tr_backwards>>
    /\ UNCHANGED trainRest

(* top of `for epoch in range(epochs)`: fine_tune sets total_loss = 0;      *)
(* notebook 02 calls train_epoch, which starts with model.train() and       *)
(* total_loss = 0; the iteration over the loader starts                     *)
train_epoch_begin ==
    /\ tr_pc = "epoch"
    /\ tr_epoch < tr_epochs
    /\ total_loss' = 0
    /\ tr_training' = TRUE
    /\ tr_batch' = 0
    /\ tr_visits' = [b \in 1..tr_batches |-> 0]
    /\ tr_calls' = <<>>
    /\ tr_pc' = IF tr_batches = 0 THEN "epoch_end" ELSE "zero_grad"
    /\ UNCHANGED <<trainArgs, tr_epoch, tr_loss, tr_steps, tr_backwards>>
    /\ UNCHANGED trainRest

(* the loader yields the next batch; optimizer.zero_grad() *)
train_zero_grad ==
    /\ tr_pc = "zero_grad"
    /\ tr_batch < tr_batches
    /\ tr_visits' = [tr_visits EXCEPT ![tr_batch + 1] = @ + 1]
    /\ tr_calls' = <<"zero_grad">>
    /\ tr_pc' = next_call("zero_grad")
    /\ UNCHANGED <<trainArgs, tr_epoch, tr_batch, tr_loss, total_loss, tr_steps,
                   tr_backwards, tr_training>>
    /\ UNCHANGED trainRest

(* with autocast(): outputs = model(inputs); loss = ... *)
train_forward ==
    /\ tr_pc = "forward"
    /\ \E l \in 1..MaxLoss : tr_loss' = l
    /\ tr_calls' = Append(tr_calls, "forward")
    /\ tr_pc' = next_call("forward")
    /\ UNCHANGED <<trainArgs, tr_epoch, tr_batch, tr_visits, total_loss, tr_steps,
                   tr_backwards, tr_training>>
    /\ UNCHANGED trainRest

(* scaler.scale(loss).backward() *)
train_backward ==
    /\ tr_pc = "backward"
    /\ tr_backwards' = tr_backwards + 1
    /\ tr_calls' = Append(tr_calls, "backward")
    /\ tr_pc' = next_call("backward")
    /\ UNCHANGED <<trainArgs, tr_epoch, tr_batch, tr_visits, tr_loss, total_loss,
                   tr_steps, tr_training>>
    /\ UNCHANGED trainRest

(* scaler.step(optimizer) *)
train_step ==
    /\ tr_pc = "step"
    /\ tr_steps' = tr_steps + 1
    /\ tr_calls' = Append(tr_calls, "step")
    /\ tr_pc' = next_call("step")
    /\ UNCHANGED <<trainArgs, tr_epoch, tr_batch, tr_visits, tr_loss, total_loss,
                   tr_backwards, tr_training>>
    /\ UNCHANGED trainRest

(* scaler.update() *)
train_update ==
    /\ tr_pc = "update"
    /\ tr_calls' = Append(tr_calls, "update")
    /\ tr_pc' = next_call("update")
    /\ UNCHANGED <<trainArgs, tr_epoch, tr_batch, tr_visits, tr_loss, total_loss,
                   tr_steps, tr_backwards, tr_training>>
    /\ UNCHANGED trainRest

(* total_loss += loss.item(); the iteration over the loader goes on, or     *)
(* ends after the last batch                                                *)
train_accumulate ==
    /\ tr_pc = "accumulate"
    /\ total_loss' = total_loss + tr_loss
    /\ tr_batch' = tr_batch + 1
    /\ tr_pc' = IF tr_batch + 1 = tr_batches THEN "epoch_end" ELSE "zero_grad"
    /\ UNCHANGED <<trainArgs, tr_epoch, tr_calls, tr_visits, tr_loss, tr_steps,
                   tr_backwards, tr_training>>
    /\ UNCHANGED trainRest

(* fine_tune: avg_loss = total_loss / len(train_dataloader) and print end   *)
(* the epoch. notebook 02: train_epoch returns total_loss / len(loader) and *)
(* validate is called. The division raises ZeroDivisionError for an empty   *)
(* loader.                                                                  *)
train_epoch_end ==
    /\ tr_pc = "epoch_end"
    /\ IF tr_batches = 0
       THEN tr_epoch' = tr_epoch /\ tr_pc' = "raised"
       ELSE IF tr_variant = 1
            THEN tr_epoch' = tr_epoch + 1 /\ tr_pc' = "epoch"
            ELSE tr_epoch' = tr_epoch /\ tr_pc' = "validate"
    /\ UNCHANGED <<trainArgs, tr_batch, tr_calls, tr_visits, tr_loss, total_loss,
                   tr_steps, tr_backwards, tr_training>>
    /\ UNCHANGED trainRest

(* validate(model, val_loader, criterion): model.eval(), then forward       *)
(* passes under no_grad summed into a local of its own; the prints end the  *)
(* epoch                                                                    *)
train_validate ==
    /\ tr_pc = "validate"
    /\ tr_training' = FALSE
    /\ tr_epoch' = tr_epoch + 1
    /\ tr_pc' = "epoch"
    /\ UNCHANGED <<trainArgs, tr_batch, tr_calls, tr_visits, tr_loss, total_loss,
                   tr_steps, tr_backwards>>
    /\ UNCHANGED trainRest

(* the epoch loop is exhausted *)
train_done ==
    /\ tr_pc = "epoch"
    /\ tr_epoch = tr_epochs
    /\ tr_pc' = "done"
    /\ UNCHANGED <<trainArgs, tr_epoch, tr_batch, tr_calls, tr_visits, tr_loss,
                   total_loss, tr_steps, tr_backwards, tr_training>>
    /\ UNCHANGED trainRest

InitTrain ==
    /\ tr_variant \in {1, 2}
    /\ tr_epochs \in 1..MaxEpochs
    /\ tr_batches \in 0..MaxBatches
    /\ tr_epoch = 0
    /\ tr_batch = 0
    /\ tr_pc = "setup"
    /\ tr_calls = <<>>
    /\ tr_visits = [b \in 1..tr_batches |-> 0]
    /\ tr_loss = 0
    /\ total_loss = 0
    /\ tr_steps = 0
    /\ tr_backwards = 0
    /\ tr_training \in BOOLEAN

TrainOff ==
    /\ tr_variant = 0
    /\ tr_epochs = 0
    /\ tr_batches = 0
    /\ tr_epoch = 0
    /\ tr_batch = 0
    /\ tr_pc = "off"
    /\ tr_calls = <<>>
    /\ tr_visits = <<>>
    /\ tr_loss = 0
    /\ total_loss = 0
    /\ tr_steps = 0
    /\ tr_backwards = 0
    /\ tr_training = FALSE

-----------------------------------------------------------------------------
(* The framework calls the notebooks make on models.                        *)
(* A layer object is [prec, qconfig, observed, fake_quant, ver]: the        *)
(* precision of its parameters, whether a qconfig is attached, whether      *)
(* observers / fake-quantize modules are attached, and the number of        *)
(* optimizer steps that have updated its parameters. A model object is      *)
(* [device, training, qconfig, layers], layers mapping each layer name to   *)
(* the identity (index in heap) of the layer object bound to it.            *)
NewLayer == [prec |-> "FP32", qconfig |-> FALSE, observed |-> FALSE,
             fake_quant |-> FALSE, ver |-> 0]

(* copy.deepcopy(m): every layer of m is copied to a fresh object *)
deepcopy(h, m) ==
    [heap |-> h \o [k \in 1..Len(LayerNames) |-> h[m.layers[LayerNames[k]]]],
     model |-> [m EXCEPT !.layers =
                   [n \in DOMAIN m.layers |-> Len(h) + Index(LayerNames, n)]]]

(* torch.quantization.prepare(m), inplace=False: a copy of m whose layers   *)
(* carry m.qconfig and observers                                            *)
prepare(h, m) ==
    LET c == deepcopy(h, m)
    IN [heap |-> [i \in DOMAIN c.heap |->
                    IF i > Len(h)
                    THEN [c.heap[i] EXCEPT !.qconfig = m.qconfig, !.observed = m.qconfig]
                    ELSE c.heap[i]],
        model |-> c.model]

(* torch.quantization.prepare_qat(m), inplace=False: as prepare, with       *)
(* fake-quantize modules attached                                           *)
prepare_qat(h, m) ==
    LET c == deepcopy(h, m)
    IN [heap |-> [i \in DOMAIN c.heap |->
                    IF i > Len(h)
                    THEN [c.heap[i] EXCEPT !.qconfig = m.qconfig,
                                           !.observed = m.qconfig,
                                           !.fake_quant = m.qconfig]
                    ELSE c.heap[i]],
        model |-> c.model]

(* torch.quantization.convert(m), inplace=False: a copy of m in which every *)
(* layer that carries a qconfig is swapped for its INT8 counterpart; the    *)
(* qconfig attributes are removed from the copy                             *)
convert(h, m) ==
    LET c == deepcopy(h, m)
    IN [heap |-> [i \in DOMAIN c.heap |->
                    IF i > Len(h)
                    THEN IF c.heap[i].qconfig
                         THEN [c.heap[i] EXCEPT !.prec = "INT8", !.qconfig = FALSE,
                                                !.observed = FALSE, !.fake_quant = FALSE]
                         ELSE [c.heap[i] EXCEPT !.qconfig = FALSE]
                    ELSE c.heap[i]],
        model |-> [c.model EXCEPT !.qconfig = FALSE]]

(* half, were the call to .half() left out *)
half_omitted(h, id) == h

(* module.half(): converts the parameters of the layer object in place *)
half(h, id) == [h EXCEPT ![id].prec = "FP16"]

(* one optimizer step over m.parameters() *)
optimizer_step(h, m) ==
    [i \in DOMAIN h |->
        IF i \in Range(m.layers) THEN [h[i] EXCEPT !.ver = h[i].ver + 1] ELSE h[i]]

-----------------------------------------------------------------------------
(* Control flow of a notebook run top to bottom: a statement is executed    *)
(* when every statement above it has returned and no error was raised.      *)
ctl == <<running, started, returned, err, phase>>
loops == <<epoch, batch, run, target>>
params == <<nb, device, numBatches, numAttention>>
objs == <<heap, model, model_prepared, model_quantized, optimized_model, attn_class>>
flags == <<observer_enabled, fake_quant_enabled>>
io == <<files, opens>>
others == <<cacheVars, pruneVars, fuseVars, trainVars>>

(* Ready, were the next statement launched without waiting for the one in  *)
(* progress to return                                                       *)
ReadyAsync(s) ==
    /\ err = "None"
    /\ Len(started) < Len(Statements)
    /\ s = Statements[Len(started) + 1]

Ready(s) ==
    /\ err = "None"
    /\ running = {}
    /\ Len(returned) < Len(Statements)
    /\ s = Statements[Len(returned) + 1]

In(s, p) == s \in running /\ phase = p

Return(s) ==
    /\ running' = running \ {s}
    /\ returned' = Append(returned, s)
    /\ phase' = "idle"
    /\ UNCHANGED <<started, err>>

Goto(p) ==
    /\ phase' = p
    /\ UNCHANGED <<running, started, returned, err>>

(* Propagate, were the exception caught and the statement carried on *)
Swallow(s) ==
    /\ err' = s
    /\ UNCHANGED <<running, started, returned, phase>>

(* an exception leaves the statement in progress and reaches the top level *)
Propagate(s) ==
    /\ err' = s
    /\ running' = {}
    /\ UNCHANGED <<started, returned, phase>>

call ==
    /\ \E s \in Range(Statements) :
         /\ Ready(s)
         /\ running' = running \cup {s}
         /\ started' = Append(started, s)
    /\ phase' = "enter"
    /\ epoch' = 0 /\ batch' = 0 /\ run' = 0 /\ target' = 0
    /\ UNCHANGED <<returned, err, params, objs, flags, io, others>>

(* a framework call made by the statement in progress raises *)
raise ==
    /\ err = "None"
    /\ \E s \in running : Propagate(s)
    /\ UNCHANGED <<loops, params, objs, flags, io, others>>

-----------------------------------------------------------------------------
(* Statements common to both notebooks *)

(* notebook 01: AutoModelForCausalLM.from_pretrained(model_name).to(device) *)
(*   (from_pretrained returns the model in eval mode)                       *)
(* notebook 02: timm.create_model(model_name, pretrained=True).to(device)   *)
(*   (a new nn.Module is in train mode)                                     *)
load ==
    /\ In("load", "enter")
    /\ heap' = [k \in 1..Len(LayerNames) |-> NewLayer]
    /\ model' = [device |-> device, training |-> (nb = 2), qconfig |-> FALSE,
                 layers |-> [n \in Range(LayerNames) |-> Index(LayerNames, n)]]
    /\ Return("load")
    /\ UNCHANGED <<model_prepared, model_quantized, optimized_model, attn_class>>
    /\ UNCHANGED <<loops, params, flags, io, others>>

-----------------------------------------------------------------------------
(* Notebook 01 *)

(* fine_tune: scaler = GradScaler(); model.train() *)
fine_tune_enter ==
    /\ nb = 1
    /\ In("fine_tune", "enter")
    /\ model' = [model EXCEPT !.training = TRUE]
    /\ Goto("loop")
    /\ UNCHANGED <<heap, model_prepared, model_quantized, optimized_model, attn_class>>
    /\ UNCHANGED <<loops, params, flags, io, others>>

(* fine_tune: one iteration of `for batch in train_dataloader`; the last    *)
(* batch of an epoch also ends the iteration of `for epoch in range(epochs)`*)
fine_tune_batch ==
    /\ nb = 1
    /\ In("fine_tune", "loop")
    /\ epoch < FineTuneEpochs01
    /\ batch < numBatches
    /\ heap' = optimizer_step(heap, model)
    /\ IF batch + 1 = numBatches
       THEN epoch' = epoch + 1 /\ batch' = 0
       ELSE epoch' = epoch /\ batch' = batch + 1
    /\ Goto("loop")
    /\ UNCHANGED <<model, model_prepared, model_quantized, optimized_model, attn_class>>
    /\ UNCHANGED <<run, target, params, flags, io, others>>

fine_tune_return ==
    /\ nb = 1
    /\ In("fine_tune", "loop")
    /\ epoch = FineTuneEpochs01
    /\ Return("fine_tune")
    /\ UNCHANGED <<loops, params, objs, flags, io, others>>

(* apply_ptq(model.cpu()): model.cpu() moves `model` itself; model.qconfig  *)
(* is set on it; prepare returns the copy with observers                    *)
apply_ptq_prepare ==
    /\ In("apply_ptq", "enter")
    /\ LET m == [model EXCEPT !.device = "cpu", !.qconfig = TRUE]
           r == prepare(heap, m)
       IN /\ model' = m
          /\ heap' = r.heap
          /\ model_prepared' = r.model
    /\ batch' = 0
    /\ Goto("calibrate")
    /\ UNCHANGED <<model_quantized, optimized_model, attn_class>>
    /\ UNCHANGED <<epoch, run, target, params, flags, io, others>>

(* apply_ptq: one iteration of the calibration loop, model_prepared(inputs) *)
apply_ptq_calibrate ==
    /\ In("apply_ptq", "calibrate")
    /\ batch < numBatches
    /\ batch' = batch + 1
    /\ Goto("calibrate")
    /\ UNCHANGED <<epoch, run, target, params, objs, flags, io, others>>

(* model_quantized.transformer.wte = model.transformer.wte.half(), and the  *)
(* same for wpe and lm_head: the layer objects of `model` are converted in  *)
(* place and bound in model_quantized                                       *)
keep_fp16(h, mq, m) ==
    [heap |-> half(half(half(h, m.layers["wte"]), m.layers["wpe"]), m.layers["lm_head"]),
     model |-> [mq EXCEPT !.layers["wte"] = m.layers["wte"],
                          !.layers["wpe"] = m.layers["wpe"],
                          !.layers["lm_head"] = m.layers["lm_head"]]]

(* apply_ptq: convert, keep the embeddings and the head in FP16, return *)
apply_ptq_convert ==
    /\ In("apply_ptq", "calibrate")
    /\ batch = numBatches
    /\ LET c == convert(heap, model_prepared)
           k == keep_fp16(c.heap, c.model, model)
       IN /\ heap' = k.heap
          /\ model_quantized' = k.model
    /\ Return("apply_ptq")
    /\ UNCHANGED <<model, model_prepared, optimized_model, attn_class>>
    /\ UNCHANGED <<loops, params, flags, io, others>>

(* for layer in model_int8.transformer.h: layer.attn = QuantizedAttention(layer.attn) *)
quantized_attention ==
    /\ In("quantized_attention", "enter")
    /\ attn_class' = "QuantizedAttention"
    /\ Return("quantized_attention")
    /\ UNCHANGED <<heap, model, model_prepared, model_quantized, optimized_model>>
    /\ UNCHANGED <<loops, params, flags, io, others>>

(* for layer in model_int8.transformer.h: layer.attn = CachedQuantizedAttention(layer.attn) *)
cached_attention ==
    /\ In("cached_attention", "enter")
    /\ attn_class' = "CachedQuantizedAttention"
    /\ Return("cached_attention")
    /\ UNCHANGED <<heap, model, model_prepared, model_quantized, optimized_model>>
    /\ UNCHANGED <<loops, params, flags, io, others>>

(* export_to_onnx(model_int8, (1, 512)): torch.onnx.export writes the file *)
export_to_onnx ==
    /\ In("export_to_onnx", "enter")
    /\ files' = files \cup {OnnxPath}
    /\ Return("export_to_onnx")
    /\ UNCHANGED <<opens, loops, params, objs, flags, others>>

(* onnx_inference("quantized_gpt2.onnx", input_ids): ort.InferenceSession   *)
(* opens the file; it raises when the file does not exist                   *)
onnx_inference ==
    /\ In("onnx_inference", "enter")
    /\ opens' = opens + 1
    /\ IF OnnxPath \in files
       THEN Return("onnx_inference")
       ELSE Propagate("onnx_inference")
    /\ UNCHANGED <<files, loops, params, objs, flags, others>>

(* the benchmark cell: three calls of benchmark, one after the other:       *)
(* notebook 01: model, model_int8, the onnx_inference lambda                *)
(* notebook 02: model, model_quantized, optimized_model                     *)
BenchmarkCalls == 3
RunsPerCall == IF nb = 1 THEN BenchmarkRuns01 ELSE WarmupRuns02 + BenchmarkRuns02

(* benchmark(...) is called; notebook 02's benchmark starts with model.eval() *)
benchmark_begin ==
    /\ In("benchmark", "enter")
    /\ target < BenchmarkCalls
    /\ target' = target + 1
    /\ run' = 0
    /\ IF nb = 2 /\ target = 0
       THEN model' = [model EXCEPT !.training = FALSE] /\ UNCHANGED model_quantized
       ELSE IF nb = 2 /\ target = 1
       THEN model_quantized' = [model_quantized EXCEPT !.training = FALSE]
            /\ UNCHANGED model
       ELSE UNCHANGED <<model, model_quantized>>
    /\ Goto("timing")
    /\ UNCHANGED <<heap, model_prepared, optimized_model, attn_class>>
    /\ UNCHANGED <<epoch, batch, params, flags, io, others>>

(* one `_ = model(input)`; the third call of notebook 01 is onnx_inference *)
benchmark_run ==
    /\ In("benchmark", "timing")
    /\ run < RunsPerCall
    /\ run' = run + 1
    /\ IF nb = 1 /\ target = 3
       THEN /\ opens' = opens + 1
            /\ IF OnnxPath \in files THEN Goto("timing") ELSE Propagate("benchmark")
       ELSE /\ opens' = opens
            /\ Goto("timing")
    /\ UNCHANGED <<files, epoch, batch, target, params, objs, flags, others>>

(* benchmark(...) returns; after the third call the cell is done *)
benchmark_end ==
    /\ In("benchmark", "timing")
    /\ run = RunsPerCall
    /\ IF target < BenchmarkCalls THEN Goto("enter") ELSE Return("benchmark")
    /\ UNCHANGED <<loops, params, objs, flags, io, others>>

-----------------------------------------------------------------------------
(* Notebook 02 *)

(* the dataset cell: CIFAR10, Subset, DataLoader *)
prepare_dataset ==
    /\ In("prepare_dataset", "enter")
    /\ Return("prepare_dataset")
    /\ UNCHANGED <<loops, params, objs, flags, io, others>>

(* train_epoch(m, ...): model.train(), then one optimizer step per batch;   *)
(* this is one iteration of `for inputs, targets in loader`                 *)
train_epoch_batch(h, m) ==
    [heap |-> optimizer_step(h, m), model |-> [m EXCEPT !.training = TRUE]]

(* validate(m, ...): model.eval(), forward passes under no_grad *)
validate(m) == [m EXCEPT !.training = FALSE]

(* the fine-tuning cell: criterion, optimizer, scaler, then the epoch loop *)
fine_tune_setup ==
    /\ nb = 2
    /\ In("fine_tune", "enter")
    /\ Goto("train")
    /\ UNCHANGED <<loops, params, objs, flags, io, others>>

fine_tune_train ==
    /\ nb = 2
    /\ In("fine_tune", "train")
    /\ epoch < FineTuneEpochs02
    /\ batch < numBatches
    /\ LET r == train_epoch_batch(heap, model)
       IN heap' = r.heap /\ model' = r.model
    /\ IF batch + 1 = numBatches
       THEN batch' = 0 /\ Goto("validate")
       ELSE batch' = batch + 1 /\ Goto("train")
    /\ UNCHANGED <<model_prepared, model_quantized, optimized_model, attn_class>>
    /\ UNCHANGED <<epoch, run, target, params, flags, io, others>>

fine_tune_validate ==
    /\ nb = 2
    /\ In("fine_tune", "validate")
    /\ model' = validate(model)
    /\ epoch' = epoch + 1
    /\ Goto("train")
    /\ UNCHANGED <<heap, model_prepared, model_quantized, optimized_model, attn_class>>
    /\ UNCHANGED <<batch, run, target, params, flags, io, others>>

fine_tune_done ==
    /\ nb = 2
    /\ In("fine_tune", "train")
    /\ epoch = FineTuneEpochs02
    /\ Return("fine_tune")
    /\ UNCHANGED <<loops, params, objs, flags, io, others>>

(* model_qat.patch_embed = model.patch_embed; model_qat.head = model.head:  *)
(* the layer objects of `model` are bound in model_qat as they are          *)
keep_first_last(mq, m) ==
    [mq EXCEPT !.layers["patch_embed"] = m.layers["patch_embed"],
               !.layers["head"] = m.layers["head"]]

(* apply_qaf: qconfig, prepare_qat, keep first and last layers, optimizer,  *)
(* scaler. A new FakeQuantize has observer and fake-quantization enabled.   *)
apply_qaf_prepare ==
    /\ In("apply_qaf", "enter")
    /\ LET m == [model EXCEPT !.qconfig = TRUE]
           r == prepare_qat(heap, m)
       IN /\ model' = m
          /\ heap' = r.heap
          /\ model_prepared' = keep_first_last(r.model, m)
    /\ observer_enabled' = TRUE
    /\ fake_quant_enabled' = TRUE
    /\ epoch' = 0 /\ batch' = 0
    /\ Goto("flags")
    /\ UNCHANGED <<model_quantized, optimized_model, attn_class>>
    /\ UNCHANGED <<run, target, params, io, others>>

(* observer_after_switches, were the test `if epoch == 0` *)
observer_first_epoch_only(e) == e = 0

(* disable_observer, then `if epoch > 0: enable_observer`: whether the       *)
(* observers are enabled when train_epoch is called in epoch e              *)
observer_after_switches(e) == e > 0

(* apply_qaf, top of the epoch loop: disable_observer, enable_fake_quant,   *)
(* and enable_observer if epoch > 0                                         *)
apply_qaf_flags ==
    /\ In("apply_qaf", "flags")
    /\ epoch < QafEpochs
    /\ observer_enabled' = observer_after_switches(epoch)
    /\ fake_quant_enabled' = TRUE
    /\ Goto("train")
    /\ UNCHANGED <<loops, params, objs, io, others>>

apply_qaf_train ==
    /\ In("apply_qaf", "train")
    /\ batch < numBatches
    /\ LET r == train_epoch_batch(heap, model_prepared)
       IN heap' = r.heap /\ model_prepared' = r.model
    /\ IF batch + 1 = numBatches
       THEN batch' = 0 /\ Goto("validate")
       ELSE batch' = batch + 1 /\ Goto("train")
    /\ UNCHANGED <<model, model_quantized, optimized_model, attn_class>>
    /\ UNCHANGED <<epoch, run, target, params, flags, io, others>>

apply_qaf_validate ==
    /\ In("apply_qaf", "validate")
    /\ model_prepared' = validate(model_prepared)
    /\ epoch' = epoch + 1
    /\ Goto("flags")
    /\ UNCHANGED <<heap, model, model_quantized, optimized_model, attn_class>>
    /\ UNCHANGED <<batch, run, target, params, flags, io, others>>

(* apply_qaf: convert(model_qat.eval(), inplace=False) and return *)
apply_qaf_convert ==
    /\ In("apply_qaf", "flags")
    /\ epoch = QafEpochs
    /\ LET mq == [model_prepared EXCEPT !.training = FALSE]
           c == convert(heap, mq)
       IN /\ model_prepared' = mq
          /\ heap' = c.heap
          /\ model_quantized' = c.model
    /\ Return("apply_qaf")
    /\ UNCHANGED <<model, optimized_model, attn_class>>
    /\ UNCHANGED <<loops, params, flags, io, others>>

(* prune_attention_heads(model_quantized): the first Attention module met   *)
(* by the loop makes `module.qkv.weight.data *= mask` raise, whatever its   *)
(* number of heads and width; without Attention modules the loop does       *)
(* nothing                                                                  *)
prune_raises ==
    /\ numAttention > 0
    /\ \A nh \in 1..MaxHeads : \A hd \in 1..MaxHeadDim :
         ~InplaceMulOK(QkvWeightShape(nh * hd), MaskShape(nh))

prune_statement ==
    /\ In("prune_attention_heads", "enter")
    /\ IF prune_raises
       THEN Propagate("prune_attention_heads")
       ELSE Return("prune_attention_heads")
    /\ UNCHANGED <<loops, params, objs, flags, io, others>>

(* fuse_bn_recursively(model_quantized) *)
fuse_statement ==
    /\ In("fuse_bn_recursively", "enter")
    /\ Return("fuse_bn_recursively")
    /\ UNCHANGED <<loops, params, objs, flags, io, others>>

(* verify_quantized_attention(model_quantized): prints only *)
verify_quantized_attention ==
    /\ In("verify_quantized_attention", "enter")
    /\ Return("verify_quantized_attention")
    /\ UNCHANGED <<loops, params, objs, flags, io, others>>

(* optimized_model = optimize_for_mobile(model_quantized): model.eval(),    *)
(* trace, optimize                                                          *)
optimize_for_mobile ==
    /\ In("optimize_for_mobile", "enter")
    /\ model_quantized' = [model_quantized EXCEPT !.training = FALSE]
    /\ optimized_model' = TRUE
    /\ Goto("save")
    /\ UNCHANGED <<heap, model, model_prepared, attn_class>>
    /\ UNCHANGED <<loops, params, flags, io, others>>

(* optimized_model.save("optimized_vit_edge.pt") *)
save_optimized ==
    /\ In("optimize_for_mobile", "save")
    /\ files' = files \cup {MobilePath}
    /\ Return("optimize_for_mobile")
    /\ UNCHANGED <<opens, loops, params, objs, flags, others>>

-----------------------------------------------------------------------------
(* The notebook run *)
InitNb ==
    /\ nb \in {1, 2}
    /\ device \in {"cuda", "cpu"}
    /\ numBatches \in 1..MaxBatches
    /\ numAttention \in (IF nb = 1 THEN {0} ELSE 0..MaxAttention)
    /\ running = {}
    /\ started = <<>>
    /\ returned = <<>>
    /\ err = "None"
    /\ phase = "idle"
    /\ epoch = 0 /\ batch = 0 /\ run = 0 /\ target = 0
    /\ heap = <<>>
    /\ model = NoModel
    /\ model_prepared = NoModel
    /\ model_quantized = NoModel
    /\ optimized_model = FALSE
    /\ attn_class = "Attention"
    /\ observer_enabled = FALSE
    /\ fake_quant_enabled = FALSE
    /\ files = {}
    /\ opens = 0

NbOff ==
    /\ nb = 0
    /\ device = "cpu"
    /\ numBatches = 0
    /\ numAttention = 0
    /\ running = {}
    /\ started = <<>>
    /\ returned = <<>>
    /\ err = "None"
    /\ phase = "idle"
    /\ epoch = 0 /\ batch = 0 /\ run = 0 /\ target = 0
    /\ heap = <<>>
    /\ model = NoModel
    /\ model_prepared = NoModel
    /\ model_quantized = NoModel
    /\ optimized_model = FALSE
    /\ attn_class = "Attention"
    /\ observer_enabled = FALSE
    /\ fake_quant_enabled = FALSE
    /\ files = {}
    /\ opens = 0

Init == InitNb /\ CacheOff /\ PruneOff /\ FuseOff /\ TrainOff

Next ==
    \/ call
    \/ raise
    \/ load
    \/ fine_tune_enter
    \/ fine_tune_batch
    \/ fine_tune_return
    \/ apply_ptq_prepare
    \/ apply_ptq_calibrate
    \/ apply_ptq_convert
    \/ quantized_attention
    \/ cached_attention
    \/ export_to_onnx
    \/ onnx_inference
    \/ benchmark_begin
    \/ benchmark_run
    \/ benchmark_end
    \/ prepare_dataset
    \/ fine_tune_setup
    \/ fine_tune_train
    \/ fine_tune_validate
    \/ fine_tune_done
    \/ apply_qaf_prepare
    \/ apply_qaf_flags
    \/ apply_qaf_train
    \/ apply_qaf_validate
    \/ apply_qaf_convert
    \/ prune_statement
    \/ fuse_statement
    \/ verify_quantized_attention
    \/ optimize_for_mobile
    \/ save_optimized

Spec == Init /\ [][Next]_vars

InitCacheSpec == NbOff /\ InitCache /\ PruneOff /\ FuseOff /\ TrainOff
NextCache == forward
SpecCache == InitCacheSpec /\ [][NextCache]_vars

InitPruneSpec == NbOff /\ CacheOff /\ InitPrune /\ FuseOff /\ TrainOff
NextPrune == prune_attention_heads
SpecPrune == InitPruneSpec /\ [][NextPrune]_vars

InitTrainSpec == NbOff /\ CacheOff /\ PruneOff /\ FuseOff /\ InitTrain
NextTrain ==
    \/ train_setup
    \/ train_epoch_begin
    \/ train_zero_grad
    \/ train_forward
    \/ train_backward
    \/ train_step
    \/ train_update
    \/ train_accumulate
    \/ train_epoch_end
    \/ train_validate
    \/ train_done
SpecTrain == InitTrainSpec /\ [][NextTrain]_vars

InitFuseSpec == NbOff /\ CacheOff /\ PruneOff /\ InitFuse /\ TrainOff
NextFuse == fuse
SpecFuse == InitFuseSpec /\ [][NextFuse]_vars

-----------------------------------------------------------------------------
(* Properties *)

Layer(m, n) == heap[m.layers[n]]
Completed == err = "None" /\ Len(returned) = Len(Statements)

(* the stages the pipeline names, in the order it gives them *)
Pipeline01 == <<"load", "fine_tune", "apply_ptq", "export_to_onnx", "benchmark">>
Pipeline02 == <<"load", "fine_tune", "apply_qaf", "prune_attention_heads",
                "fuse_bn_recursively", "optimize_for_mobile", "benchmark">>
Pipeline == IF nb = 1 THEN Pipeline01 ELSE Pipeline02
IsStage(s) == s \in Range(Pipeline)
IsPrefix(a, b) == Len(a) <= Len(b) /\ a = SubSeq(b, 1, Len(a))

(* C1: in a notebook run top to bottom the stages start in the order load,  *)
(* fine-tune, quantize, prune/fuse (notebook 02), export, benchmark; a      *)
(* stage starts only when every stage started before it has returned, and   *)
(* at most one stage is in progress at any time.                            *)
C1_StagesInOrder ==
    /\ Cardinality(running) <= 1
    /\ IsPrefix(SelectSeq(started, IsStage), Pipeline)
    /\ IsPrefix(returned, started)
    /\ Len(started) <= Len(returned) + 1
    /\ running # {} => running = {started[Len(started)]}
    /\ running # {} => Len(returned) = Len(started) - 1

C1_Witness ==
    /\ nb = 2
    /\ "benchmark" \in running
    /\ target = 3
    /\ SelectSeq(returned, IsStage) = SubSeq(Pipeline02, 1, 6)

(* C2: an error raised in any stage reaches the top level: once a call has  *)
(* raised, nothing is in progress and no further step of the notebook is    *)
(* taken (no retry, no fallback, no later statement).                       *)
C2_ErrorsPropagate ==
    /\ [](err # "None" => running = {})
    /\ [][err = "None"]_vars

C2_Witness ==
    /\ err = "apply_ptq"
    /\ phase = "calibrate"
    /\ batch = 1
    /\ model_quantized = NoModel

(* C3: under autoregressive use (each call after the first extends the      *)
(* previous input by one position), after every forward call the returned   *)
(* key and value have as many positions as hidden_states, and position i    *)
(* holds the key / value computed for position i.                           *)
C3_CacheAligned ==
    (calls >= 1 /\ autoregressive) =>
        /\ ~cached_key.is_none /\ ~cached_value.is_none
        /\ out_key = cached_key.t /\ out_value = cached_value.t
        /\ Len(out_key) = Len(hidden_states)
        /\ Len(out_value) = Len(hidden_states)
        /\ \A i \in 1..Len(hidden_states) :
             /\ out_key[i] = key_proj(hidden_states[i])
             /\ out_value[i] = value_proj(hidden_states[i])

C3_Witness ==
    /\ calls = 3
    /\ autoregressive
    /\ first_len = 1
    /\ hidden_states = <<1, 0, 1>>

RECURSIVE NoBatchNormBelow(_)
NoBatchNormBelow(m) ==
    \A i \in DOMAIN m.children :
        m.children[i].kind # "BatchNorm2d" /\ NoBatchNormBelow(m.children[i])

RECURSIVE OnlyBatchNormReplaced(_, _)
OnlyBatchNormReplaced(before, after) ==
    /\ after.kind = before.kind
    /\ DOMAIN after.children = DOMAIN before.children
    /\ \A i \in DOMAIN before.children :
         IF before.children[i].kind = "BatchNorm2d"
         THEN after.children[i].kind = "Identity"
         ELSE OnlyBatchNormReplaced(before.children[i], after.children[i])

(* C5: after fuse_bn_recursively(model) returns, no BatchNorm2d is a child  *)
(* at any depth; each one has been replaced under the same name by an       *)
(* Identity, and every other module is in place under its name.             *)
C5_NoBatchNormLeft ==
    fuse_state = "returned" =>
        NoBatchNormBelow(tree) /\ OnlyBatchNormReplaced(tree0, tree)

C5_Witness ==
    /\ fuse_state = "returned"
    /\ Len(tree0.children) = 2
    /\ tree0.children[1].kind = "BatchNorm2d"
    /\ tree0.children[2].kind = "Sequential"
    /\ Len(tree0.children[2].children) = 2
    /\ tree0.children[2].children[1].kind = "Conv2d"
    /\ tree0.children[2].children[2].kind = "BatchNorm2d"

(* C6: the model returned by apply_ptq has wte, wpe and lm_head in FP16,    *)
(* not INT8, and its remaining layers are the converted INT8 ones.          *)
C6_EmbeddingsAndHeadFP16 ==
    (nb = 1 /\ model_quantized # NoModel) =>
        /\ \A n \in {"wte", "wpe", "lm_head"} : Layer(model_quantized, n).prec = "FP16"
        /\ Layer(model_quantized, "h").prec = "INT8"
        /\ model_quantized.layers["h"] \notin Range(model.layers)
        /\ model_quantized.layers["h"] \notin Range(model_prepared.layers)

C6_Witness ==
    /\ nb = 1
    /\ returned = <<"load", "fine_tune", "apply_ptq">>
    /\ Layer(model_quantized, "lm_head").ver = FineTuneEpochs01 * numBatches

(* C7: apply_qaf keeps patch_embed and head in FP16, neither fake-quantized *)
(* nor INT8, in the model it trains and in the model it returns, while the  *)
(* other layers are (fake-)quantized.                                       *)
C7_FirstLastFP16 ==
    /\ (nb = 2 /\ model_prepared # NoModel) =>
          /\ \A n \in {"patch_embed", "head"} :
                /\ Layer(model_prepared, n).prec = "FP16"
                /\ ~Layer(model_prepared, n).fake_quant
          /\ Layer(model_prepared, "blocks").fake_quant
    /\ (nb = 2 /\ model_quantized # NoModel) =>
          /\ \A n \in {"patch_embed", "head"} : Layer(model_quantized, n).prec = "FP16"
          /\ Layer(model_quantized, "blocks").prec = "INT8"

(* C8: a run without error has written quantized_gpt2.onnx (notebook 01) or *)
(* optimized_vit_edge.pt (notebook 02); the file is written after the       *)
(* quantization stage has returned and before the benchmark starts, and the *)
(* ONNX file is never opened before export_to_onnx has written it.          *)
OutputFile == IF nb = 1 THEN OnnxPath ELSE MobilePath
QuantizeStage == IF nb = 1 THEN "apply_ptq" ELSE "apply_qaf"

C8_FilesWrittenInOrder ==
    /\ [](/\ Completed => OutputFile \in files
          /\ files \subseteq {OutputFile}
          /\ OutputFile \in files => QuantizeStage \in Range(returned)
          /\ "benchmark" \in Range(started) => OutputFile \in files)
    /\ [][opens' # opens =>
            OnnxPath \in files /\ "export_to_onnx" \in Range(returned)]_vars

C8_Witness ==
    /\ nb = 1
    /\ Completed
    /\ opens = 1 + BenchmarkRuns01
    /\ OnnxPath \in files

(* C9 as stated: after the n-th call the cache holds L1 + (n - 1) positions *)
(* whatever the lengths of the inputs.                                      *)
C9_OnePositionPerCall ==
    /\ calls = 0 => cached_key.is_none /\ cached_value.is_none
    /\ calls >= 1 =>
          /\ Len(cached_key.t) = first_len + (calls - 1)
          /\ Len(cached_value.t) = first_len + (calls - 1)

(* C9, amended: the cache is None before the first call; after the n-th     *)
(* call it holds L1 + m positions, m being the number of calls after the    *)
(* first whose hidden_states was not empty; it is never cleared or          *)
(* shortened, and a call after the first appends one position when its      *)
(* hidden_states is not empty and none when it is empty.                    *)
C9_OnePositionPerNonEmptyCall ==
    /\ [](/\ calls = 0 => cached_key.is_none /\ cached_value.is_none
          /\ calls >= 1 =>
                /\ ~cached_key.is_none /\ ~cached_value.is_none
                /\ Len(cached_key.t) = first_len + nonempty_later
                /\ Len(cached_value.t) = first_len + nonempty_later)
    /\ [][calls >= 1 =>
            /\ Len(cached_key'.t) =
                 Len(cached_key.t) + (IF hidden_states' = <<>> THEN 0 ELSE 1)
            /\ Len(cached_value'.t) =
                 Len(cached_value.t) + (IF hidden_states' = <<>> THEN 0 ELSE 1)
            /\ SubSeq(cached_key'.t, 1, Len(cached_key.t)) = cached_key.t
            /\ SubSeq(cached_value'.t, 1, Len(cached_value.t)) = cached_value.t]_vars

C9_Witness ==
    /\ calls = 3
    /\ first_len = 2
    /\ nonempty_later = 1
    /\ hidden_states = <<>>
    /\ Len(cached_key.t) = 3

(* rows of qkv.weight (entries of qkv.bias) that belong to head h in slice s *)
HeadRows(m, s, h) ==
    LET hd == HeadDimOf(m)
        first == (s * m.num_heads + (h - 1)) * hd
    IN (first + 1)..(first + hd)

WeightsZero(m, h) ==
    \A s \in 0..2 : \A r \in HeadRows(m, s, h) : \A c \in DOMAIN m.weight[r] :
        m.weight[r][c] = 0

BiasZero(m, h) ==
    m.has_bias => \A s \in 0..2 : \A r \in HeadRows(m, s, h) : m.bias[r] = 0

WeightsSame(m0, m, h) ==
    \A s \in 0..2 : \A r \in HeadRows(m0, s, h) : m.weight[r] = m0.weight[r]

BiasSame(m0, m, h) ==
    m0.has_bias => \A s \in 0..2 : \A r \in HeadRows(m0, s, h) : m.bias[r] = m0.bias[r]

PruneEnded == prune_state \in {"returned", "raised"}

(* C4: for every Attention module the call zeroes exactly                   *)
(* int(num_heads * prune_ratio) heads, and they are heads of smallest       *)
(* importance: no kept head is strictly less important than a zeroed one.   *)
C4_ZeroesLeastImportantHeads ==
    PruneEnded =>
        \A i \in DOMAIN modules0 :
            modules0[i].kind = "Attention" =>
                LET m0 == modules0[i]
                    imp == head_importance(m0)
                IN \E S \in SUBSET (1..m0.num_heads) :
                     /\ Cardinality(S) = num_prune(m0, prune_ratio)
                     /\ \A h \in S : WeightsZero(modules[i], h)
                     /\ \A h \in (1..m0.num_heads) \ S : WeightsSame(m0, modules[i], h)
                     /\ \A h \in S : \A k \in (1..m0.num_heads) \ S : imp[h] <= imp[k]

(* C10: one head mask is applied to weights and bias: a head selected for   *)
(* pruning has weights and bias zero in the Q, K and V slices, every other  *)
(* head keeps its weights and bias, and modules that are not Attention      *)
(* modules are not modified.                                                *)
C10_MaskOnWeightsAndBias ==
    PruneEnded =>
        \A i \in DOMAIN modules0 :
            IF modules0[i].kind = "Attention"
            THEN LET m0 == modules0[i]
                 IN \E S \in topk_smallest(head_importance(m0), num_prune(m0, prune_ratio)) :
                      /\ \A h \in S :
                            WeightsZero(modules[i], h) /\ BiasZero(modules[i], h)
                      /\ \A h \in (1..m0.num_heads) \ S :
                            WeightsSame(m0, modules[i], h) /\ BiasSame(m0, modules[i], h)
            ELSE modules[i] = modules0[i]

-----------------------------------------------------------------------------
(* C11: while the training of epoch 0 of apply_qaf runs, fake-quantization  *)
(* is enabled and the observers are disabled; while the training of every   *)
(* epoch >= 1 runs, both are enabled; what is enabled during training never *)
(* shrinks from one epoch to the next; the model is converted only after    *)
(* the training and the validation of the last epoch.                       *)
C11_QuantizationGrowsOverEpochs ==
    /\ [](/\ In("apply_qaf", "train") =>
                /\ fake_quant_enabled
                /\ observer_enabled <=> (epoch >= 1)
          /\ (nb = 2 /\ model_quantized # NoModel) =>
                /\ "apply_qaf" \in running => epoch = QafEpochs
                /\ Layer(model_prepared, "blocks").ver
                      = (FineTuneEpochs02 + QafEpochs) * numBatches
                /\ ~model_prepared.training)
    /\ [][(In("apply_qaf", "flags") /\ epoch >= 1) =>
            /\ fake_quant_enabled => fake_quant_enabled'
            /\ observer_enabled => observer_enabled']_vars

C11_Witness ==
    /\ In("apply_qaf", "train")
    /\ epoch = 2
    /\ batch = 1
    /\ observer_enabled
    /\ fake_quant_enabled

(* the model as fine-tuning left it: on the notebook's device, every layer  *)
(* FP32 and updated by every optimizer step of the fine-tuning, no qconfig  *)
FineTuneEpochs == IF nb = 1 THEN FineTuneEpochs01 ELSE FineTuneEpochs02

AsFineTuned(m) ==
    /\ m.device = device
    /\ ~m.qconfig
    /\ \A n \in Range(LayerNames) :
         /\ Layer(m, n).prec = "FP32"
         /\ Layer(m, n).ver = FineTuneEpochs * numBatches

(* C13: after the quantization stage has returned (and after the later      *)
(* pruning and fusion), `model` has the device, the per-layer precision,    *)
(* the configuration and the parameter values it had just before the call,  *)
(* and shares no layer with the quantized model.                            *)
C13_QuantizationLeavesModelUnchanged ==
    QuantizeStage \in Range(returned) =>
        /\ AsFineTuned(model)
        /\ Range(model.layers) \cap Range(model_quantized.layers) = {}

(* the model a benchmark call runs; the third call runs no nn.Module of the *)
(* notebook (an ONNX session, a TorchScript module)                         *)
BenchmarkedModel == IF target = 1 THEN model ELSE model_quantized

(* C14: a model that is run for calibration, conversion, export or          *)
(* benchmarking is in eval mode, in both notebooks.                         *)
C14_EvalModeOutsideTraining ==
    /\ (In("apply_ptq", "calibrate") /\ batch >= 1) => ~model_prepared.training
    /\ (model_quantized # NoModel) => ~model_prepared.training
    /\ (In("benchmark", "timing") /\ run >= 1 /\ target \in {1, 2}) =>
          ~BenchmarkedModel.training
    /\ optimized_model => ~model_quantized.training

(* the calls of one batch, in the order the claim gives them *)
BatchCallOrder == <<"zero_grad", "forward", "backward", "step", "update">>

(* C12: for every batch the calls are optimizer.zero_grad, forward,         *)
(* backward, scaler.step(optimizer), scaler.update, in this order, with one *)
(* optimizer step per batch: E epochs over B batches take E * B steps, each *)
(* epoch visits every batch once, the loss accumulator starts from 0 in     *)
(* every epoch; validate takes no optimizer step and no backward pass.      *)
C12_OneStepPerBatchInOrder ==
    /\ [](/\ IsPrefix(tr_calls, BatchCallOrder)
          /\ tr_pc = "accumulate" => tr_calls = BatchCallOrder
          /\ tr_pc = "zero_grad" =>
                /\ tr_steps = tr_epoch * tr_batches + tr_batch
                /\ tr_backwards = tr_steps
                /\ tr_batch = 0 => total_loss = 0
          /\ tr_pc = "epoch_end" => \A b \in 1..tr_batches : tr_visits[b] = 1
          /\ tr_pc \in {"zero_grad", "forward", "backward", "step", "update",
                        "accumulate"} => \A b \in 1..tr_batches : tr_visits[b] <= 1
          /\ tr_pc = "done" =>
                /\ tr_steps = tr_epochs * tr_batches
                /\ tr_backwards = tr_epochs * tr_batches)
    /\ [][tr_pc = "validate" =>
            tr_steps' = tr_steps /\ tr_backwards' = tr_backwards]_vars

C12_Witness ==
    /\ tr_pc = "done"
    /\ tr_variant = 2
    /\ tr_epochs = 3
    /\ tr_batches = 2
    /\ tr_steps = 6
    /\ ~tr_training

====
